---- MODULE Spec2Model ----
(***************************************************************************)
(* Model of the DOM simplification pipeline of dom-parser:                 *)
(* extractPageData (traverseChildNodes / processDOMNode /                  *)
(* extractTableData / flattenTable) followed by the post-processing        *)
(* normalizer (flattenNodes / mergeAdjacentSpans /                         *)
(* flattenSingleChildNodes).                                               *)
(*                                                                         *)
(* A string is a sequence of tokens.  A token is one character, except     *)
(* for the URL pieces ("https:", "//", "example.com", ...), which stand    *)
(* for the characters they spell, and for the runs of 1998 and 1999 word   *)
(* characters ("w1998", "w1999").  A DOM node is a record; a               *)
(* SimplifiedNode / InteractiveElement is a function from field names to   *)
(* values, a field being present iff its name is in the DOMAIN.            *)
(***************************************************************************)
EXTENDS Integers, Sequences, FiniteSets, TLC

VARIABLES doc, pc, raw, result

vars == <<doc, pc, raw, result>>

(***************************************************************************)
(* Strings                                                                 *)
(***************************************************************************)
WhitespaceChars == {" ", "\t", "\n", "\r"}

OpeningChars == {"(", "[", "{", "<<"}

SentenceEndChars == {".", "?", "!"}

WordChars == {"a", "b", "G", "o", "x", "y", "1", "2", "_"}

\* the token of the grave accent character (U+0060)
Backtick == "GRAVE"

\* [\s]: the characters the regular expressions' \s class matches
IsSpace(c) == c \in WhitespaceChars

\* [\w] on the first character a token spells
StartsWithWordChar(c) ==
    c \in WordChars \cup {"https:", "example.com", "o.example", "w1998", "w1999"}

\* String.prototype.length of the characters a token sequence spells
TokLen(c) ==
    CASE c = "https:" -> 6
      [] c = "//" -> 2
      [] c = "example.com" -> 11
      [] c = "o.example" -> 9
      [] c = "w1998" -> 1998
      [] c = "w1999" -> 1999
      [] OTHER -> 1

RECURSIVE StrLen(_)
StrLen(s) == IF s = <<>> THEN 0 ELSE TokLen(Head(s)) + StrLen(Tail(s))

\* text.replace(/\s+/g, ' '): every maximal run of whitespace becomes one space
RECURSIVE CollapseSpaces(_, _)
CollapseSpaces(s, inRun) ==
    IF s = <<>> THEN <<>>
    ELSE IF IsSpace(Head(s))
         THEN (IF inRun THEN <<>> ELSE <<" ">>) \o CollapseSpaces(Tail(s), TRUE)
         ELSE <<Head(s)>> \o CollapseSpaces(Tail(s), FALSE)

RECURSIVE TrimStart(_)
TrimStart(s) ==
    IF s # <<>> /\ IsSpace(Head(s)) THEN TrimStart(Tail(s)) ELSE s

RECURSIVE TrimEnd(_)
TrimEnd(s) ==
    IF s # <<>> /\ IsSpace(s[Len(s)]) THEN TrimEnd(SubSeq(s, 1, Len(s) - 1)) ELSE s

\* String.prototype.trim
Trim(s) == TrimEnd(TrimStart(s))

\* the normalization without its trim()
trimAndNormalize_noTrim(text) == CollapseSpaces(text, FALSE)

trimAndNormalize(text) == Trim(CollapseSpaces(text, FALSE))

\* String.prototype.toLowerCase on the role values of the model
ToLowerCase(s) ==
    CASE s \in {"button", "Button", "BUTTON"} -> "button"
      [] s \in {"link", "LINK"} -> "link"
      [] OTHER -> s

\* tagName.toLowerCase()
TagToLowerCase(t) ==
    CASE t = "H1" -> "h1" [] t = "H2" -> "h2"
      [] t = "UL" -> "ul" [] t = "OL" -> "ol" [] t = "LI" -> "li"
      [] t = "P" -> "p" [] t = "A" -> "a" [] t = "TABLE" -> "table"
      [] t = "IMG" -> "img" [] t = "VIDEO" -> "video" [] t = "IFRAME" -> "iframe"
      [] t = "CODE" -> "code" [] t = "PRE" -> "pre"
      [] t = "ARTICLE" -> "article" [] t = "SECTION" -> "section"
      [] t = "BUTTON" -> "button" [] t = "INPUT" -> "input"
      [] t = "SELECT" -> "select" [] t = "TEXTAREA" -> "textarea"
      [] t = "DIV" -> "div" [] t = "SPAN" -> "span"
      [] t = "THEAD" -> "thead" [] t = "TBODY" -> "tbody" [] t = "TFOOT" -> "tfoot"
      [] t = "TR" -> "tr" [] t = "TH" -> "th" [] t = "TD" -> "td"
      [] OTHER -> t

\* tag.startsWith('h') on the lower-case tags above
StartsWithH(t) == t \in {"h1", "h2"}

(***************************************************************************)
(* URL resolution: new URL(value, document.baseURI).href                   *)
(***************************************************************************)
Origin == <<"https:", "//", "example.com">>

baseURI == Origin \o <<"/">>

\* a reference without its scheme; the scheme of the references here is the
\* base's, and such a reference is resolved like one that names no scheme
SchemeRelative(u) == IF u[1] = "https:" THEN Tail(u) ELSE u

\* new URL throws a TypeError when "//" is followed by no host
IsResolvable(u) == SchemeRelative(u) # <<"//">>

\* the href of a reference that has no scheme
ResolveRelative(r) ==
    IF r = <<>> THEN baseURI
    ELSE IF r[1] = "//" THEN <<"https:">> \o r \o (IF Len(r) = 2 THEN <<"/">> ELSE <<>>)
    ELSE IF r[1] = "/" THEN Origin \o r
    ELSE baseURI \o r

ResolveURL(u) == ResolveRelative(SchemeRelative(u))

(***************************************************************************)
(* Records and the DOM                                                     *)
(***************************************************************************)
Has(n, k) == k \in DOMAIN n

\* a delete that removes nothing
Without_keeping(n, k) == n

\* delete n[k]
Without(n, k) == [f \in DOMAIN n \ {k} |-> n[f]]

\* n[k] = v
With(n, k, v) == [f \in DOMAIN n \cup {k} |-> IF f = k THEN v ELSE n[f]]

NoAttrs == [f \in {} |-> <<>>]

StyleShown == [display |-> "block", visibility |-> "visible"]

StyleNone == [display |-> "none", visibility |-> "visible"]

StyleHidden == [display |-> "block", visibility |-> "hidden"]

TextNode(data) == [nodeType |-> "TEXT_NODE", data |-> data]

CommentNode == [nodeType |-> "COMMENT_NODE"]

Element(tagName, attrs, style, childNodes) ==
    [nodeType |-> "ELEMENT_NODE", tagName |-> tagName, attrs |-> attrs,
     style |-> style, childNodes |-> childNodes]

El(tagName, childNodes) == Element(tagName, NoAttrs, StyleShown, childNodes)

IsElement(n) == n.nodeType = "ELEMENT_NODE"

\* Node.textContent
RECURSIVE textContent(_)
RECURSIVE ConcatTextContent(_)
textContent(n) ==
    CASE n.nodeType = "TEXT_NODE" -> n.data
      [] n.nodeType = "ELEMENT_NODE" -> ConcatTextContent(n.childNodes)
      [] OTHER -> <<>>

ConcatTextContent(ns) ==
    IF ns = <<>> THEN <<>>
    ELSE (IF Head(ns).nodeType = "COMMENT_NODE" THEN <<>> ELSE textContent(Head(ns)))
         \o ConcatTextContent(Tail(ns))

hasAttribute(e, a) == a \in DOMAIN e.attrs

\* window.getComputedStyle(element): display !== 'none' && visibility !== 'hidden'
isElementVisible(e) == e.style.display # "none" /\ e.style.visibility # "hidden"

(***************************************************************************)
(* Post-processing normalizer                                              *)
(***************************************************************************)
\* the ceiling taken as the last length that is still short
MaxBufferLength_inclusive == 2000 + 1

\* the ceiling of buffer.text.length < 2000
MaxBufferLength == 2000

\* a thrown TypeError (reading 'startsWith' of undefined)
TypeError == [error |-> "TypeError"]

IsError(d) == Has(d, "error")

\* !node.text is false: the field is there and is not the empty string
HasText(n) == Has(n, "text") /\ n.text # <<>>

\* text.replace(/\n+$/, '')
RECURSIVE StripTrailingNewlines(_)
StripTrailingNewlines(s) ==
    IF s # <<>> /\ s[Len(s)] = "\n"
    THEN StripTrailingNewlines(SubSeq(s, 1, Len(s) - 1))
    ELSE s

\* text.replace(/\n+/g, ' ')
RECURSIVE ReplaceNewlineRuns(_, _)
ReplaceNewlineRuns(s, inRun) ==
    IF s = <<>> THEN <<>>
    ELSE IF Head(s) = "\n"
         THEN (IF inRun THEN <<>> ELSE <<" ">>) \o ReplaceNewlineRuns(Tail(s), TRUE)
         ELSE <<Head(s)>> \o ReplaceNewlineRuns(Tail(s), FALSE)

\* the test with an opening bracket at the start of newText counted among
\* the starts that take no space
shouldPrependSpace_notBeforeBracket(existingText, newText) ==
    /\ ~(existingText # <<>>
         /\ existingText[Len(existingText)] \in OpeningChars \cup {"\n", "\r"})
    /\ ~(newText # <<>> /\ ~StartsWithWordChar(newText[1]))

\* !/([<<{(\[]|\n|\r\n?)$/.test(existingText) && !/^([^\w<<[({]|\n|\r\n?)/.test(newText)
shouldPrependSpace(existingText, newText) ==
    LET endsWithNoSpace ==
            ~(existingText # <<>>
              /\ existingText[Len(existingText)] \in OpeningChars \cup {"\n", "\r"})
        startsWithNoSpace ==
            ~(newText # <<>>
              /\ ~StartsWithWordChar(newText[1])
              /\ newText[1] \notin OpeningChars)
    IN  endsWithNoSpace /\ startsWithNoSpace

\* the flush without its replace(/\n+$/, '')
pushBuffer_keepingNewlines(buffer) == buffer

\* the open buffer is a sequence of zero (null) or one node
pushBuffer(buffer) ==
    IF buffer = <<>> THEN <<>>
    ELSE <<With(buffer[1], "text", StripTrailingNewlines(buffer[1].text))>>

RECURSIVE MergeLoop(_, _, _, _)
MergeLoop(nodes, mergedNodes, buffer, forceMerging) ==
    IF nodes = <<>> THEN mergedNodes \o pushBuffer(buffer)
    ELSE
      LET node == Head(nodes)
          rest == Tail(nodes)
      IN  IF ~HasText(node) \/ node.tag = "li" \/ StartsWithH(node.tag)
          THEN MergeLoop(rest, mergedNodes \o pushBuffer(buffer) \o <<node>>,
                         <<>>, forceMerging)
          ELSE
            LET appended ==
                    IF buffer = <<>> THEN node
                    ELSE With(buffer[1], "text",
                              buffer[1].text
                              \o (IF shouldPrependSpace(buffer[1].text, node.text)
                                  THEN <<" ">> ELSE <<>>)
                              \o node.text)
                isShort == StrLen(appended.text) < MaxBufferLength
                isEndOfSentence == node.text[Len(node.text)] \in SentenceEndChars
            IN  IF ~isEndOfSentence /\ ~forceMerging
                THEN MergeLoop(rest, mergedNodes, <<appended>>, forceMerging)
                ELSE IF isEndOfSentence /\ isShort
                THEN MergeLoop(rest, mergedNodes,
                               <<With(appended, "text", appended.text \o <<"\n", "\n">>)>>,
                               forceMerging)
                ELSE MergeLoop(rest, mergedNodes \o pushBuffer(<<appended>>),
                               <<>>, forceMerging)

mergeAdjacentSpans(nodes, forceMerging) == MergeLoop(nodes, <<>>, <<>>, forceMerging)

\* the copy without its exception for tag
CopyChildFields_withTag(data, child) ==
    [f \in DOMAIN data \cup DOMAIN child |->
        IF f \in DOMAIN child THEN child[f] ELSE data[f]]

\* Object.keys(child).forEach: data[childKey] = child[childKey], tag excepted
CopyChildFields(data, child) ==
    [f \in DOMAIN data \cup (DOMAIN child \ {"tag"}) |->
        IF f \in DOMAIN child \ {"tag"} THEN child[f] ELSE data[f]]

flattenSingleChildNodes(data, key) ==
    IF data[key] = <<>> THEN data
    ELSE
      LET child == data[key][1]
          Absorbed(copied) == IF Has(child, key) THEN copied ELSE Without(copied, key)
          Encoded(d1) ==
            IF ~Has(d1, "tag") THEN TypeError
            ELSE
              LET tag == d1.tag
                  href == IF Has(d1, "href") THEN d1.href ELSE <<>>
                  src == IF Has(d1, "src") THEN d1.src ELSE <<>>
                  text == IF Has(d1, "text") THEN d1.text ELSE <<>>
                  d2 == IF href # <<>> /\ src # <<>> /\ href = src
                        THEN Without(With(d1, "tag", "img"), "href")
                        ELSE d1
              IN  IF StartsWithH(tag) THEN d1
                  ELSE IF ~HasText(d2) THEN d2
                  ELSE IF tag = "li"
                  THEN With(d2, "text", Trim(ReplaceNewlineRuns(d2.text, FALSE)))
                  ELSE IF href # <<>>
                  THEN Without(With(d2, "text",
                                    <<"[">> \o text \o <<"]", "(">> \o href \o <<")">>),
                               "href")
                  ELSE IF tag = "code"
                  THEN With(d2, "text", <<Backtick>> \o text \o <<Backtick>>)
                  ELSE IF tag = "pre"
                  THEN With(d2, "text",
                            <<"\n", Backtick, Backtick, Backtick, "\n">> \o text
                            \o <<"\n", Backtick, Backtick, Backtick, "\n">>)
                  ELSE d2
      IN  Encoded(Absorbed(CopyChildFields(data, child)))

\* the array keys with header among them
ArrayKeys_withHeader == <<"children", "header", "body", "interactive">>

\* the keys whose values are arrays, in the order the objects are built with;
\* header and rows are passed over (continue)
ArrayKeys == <<"children", "body", "interactive">>

\* the keys whose values are objects
ObjectKeys == {"meta"}

\* the exemption with header left out
ExemptKeys_rowsOnly == {"rows"}

\* the keys the recursion passes over: key === 'header' || key === 'rows'
ExemptKeys == {"header", "rows"}

\* for (const key of keys): drop an empty array, absorb a sole element
RECURSIVE CollapseKeys(_, _)
CollapseKeys(data, keys) ==
    IF keys = <<>> \/ IsError(data) THEN data
    ELSE
      LET key == Head(keys)
      IN  IF ~Has(data, key) \/ Len(data[key]) > 1
          THEN CollapseKeys(data, Tail(keys))
          ELSE IF data[key] = <<>>
          THEN CollapseKeys(Without(data, key), Tail(keys))
          ELSE CollapseKeys(flattenSingleChildNodes(data, key), Tail(keys))

\* flattenNodes answers null (<<>>) or one value (<<v>>) for an object,
\* flattenArray is its Array.isArray branch
RECURSIVE flattenNodes(_)
RECURSIVE flattenArray(_)
RECURSIVE FlattenEach(_)
flattenNodes(data) ==
    IF DOMAIN data = {"tag"} THEN <<>>
    ELSE
      LET recursed ==
              [f \in DOMAIN data |->
                  IF f \in ExemptKeys THEN data[f]
                  ELSE IF f \in {"children", "body", "interactive", "header"}
                  THEN flattenArray(data[f])
                  ELSE IF f \in ObjectKeys THEN flattenNodes(data[f])[1]
                  ELSE data[f]]
          Merged(r) ==
              IF Has(r, "tag") /\ r.tag = "li" /\ Has(r, "children")
              THEN With(r, "children", mergeAdjacentSpans(r.children, TRUE))
              ELSE r
          Collapsed(merged) ==
              <<CollapseKeys(merged, SelectSeq(ArrayKeys, LAMBDA k : Has(merged, k)))>>
      IN  Collapsed(Merged(recursed))

\* data.map(flattenNodes).filter(Boolean)
FlattenEach(arr) ==
    IF arr = <<>> THEN <<>>
    ELSE flattenNodes(Head(arr)) \o FlattenEach(Tail(arr))

flattenArray(arr) == mergeAdjacentSpans(FlattenEach(arr), FALSE)

(***************************************************************************)
(* Traversal: the node processor and the table extractor                   *)
(***************************************************************************)
INTERACTIVE_TAGS == {"BUTTON", "INPUT", "SELECT", "TEXTAREA"}

PRESERVED_TAGS ==
    {"H1", "H2", "H3", "H4", "H5", "H6", "UL", "OL", "LI", "P", "A", "TABLE",
     "IMG", "VIDEO", "IFRAME", "CODE", "PRE", "ARTICLE", "SECTION"}

attributesToExtract ==
    {"id", "name", "data-testid", "class", "title", "aria-label",
     "data-network", "tabindex", "placeholder", "value"}

\* element.getAttribute(a); a missing attribute (null) and '' are both falsy
getAttribute(e, a) == IF hasAttribute(e, a) THEN e.attrs[a] ELSE <<>>

\* the classification with the role compared as written, not lower-cased
isInteractive_exactRole(e) ==
    LET hasRoleAttr == hasAttribute(e, "role")
        hasButtonRole == hasRoleAttr /\ e.attrs["role"] = "button"
    IN  e.tagName \in INTERACTIVE_TAGS \/ hasButtonRole

\* element.getAttribute('role')?.toLowerCase() === 'button'
isInteractive(e) ==
    LET hasRoleAttr == hasAttribute(e, "role")
        hasButtonRole == hasRoleAttr /\ ToLowerCase(e.attrs["role"]) = "button"
    IN  e.tagName \in INTERACTIVE_TAGS \/ hasButtonRole

\* the InteractiveElement pushed for an interactive element
interactiveObject(e) ==
    LET text == trimAndNormalize(textContent(e))
        href == getAttribute(e, "href")
        keys == {"tag"}
                \cup {a \in attributesToExtract : hasAttribute(e, a)}
                \cup (IF text # <<>> THEN {"text"} ELSE {})
                \cup (IF e.tagName = "A" /\ href # <<>> THEN {"href"} ELSE {})
    IN  [k \in keys |->
            CASE k = "tag" -> TagToLowerCase(e.tagName)
              [] k = "text" -> text
              [] k = "href" -> ResolveURL(href)
              [] OTHER -> e.attrs[k]]

\* what a call yields: the value returned (kind null / node / array, the
\* nodes in order), the entries it pushed on interactiveElements, in order,
\* and whether it threw
NullYield == [kind |-> "null", nodes |-> <<>>, inter |-> <<>>, err |-> FALSE]

Thrown == [kind |-> "null", nodes |-> <<>>, inter |-> <<>>, err |-> TRUE]

\* :scope > tag, ... and Array.from(element.children).filter(tagName)
ChildElements(e, tags) ==
    SelectSeq(e.childNodes, LAMBDA c : IsElement(c) /\ c.tagName \in tags)

\* element.querySelector(tag): the first descendant in document order
RECURSIVE FirstDescendantIn(_, _)
FirstDescendantIn(ns, tag) ==
    IF ns = <<>> THEN <<>>
    ELSE LET h == Head(ns)
         IN  IF ~IsElement(h) THEN FirstDescendantIn(Tail(ns), tag)
             ELSE IF h.tagName = tag THEN <<h>>
             ELSE LET d == FirstDescendantIn(h.childNodes, tag)
                  IN  IF d # <<>> THEN d ELSE FirstDescendantIn(Tail(ns), tag)

querySelector(e, tag) == FirstDescendantIn(e.childNodes, tag)

RECURSIVE processDOMNode(_)
RECURSIVE TraverseLoop(_)
RECURSIVE extractTableData(_)
RECURSIVE flattenTable(_)
RECURSIVE RowsLoop(_)

\* node.childNodes.forEach: null is skipped, an array is spread, a node pushed
TraverseLoop(childNodes) ==
    IF childNodes = <<>> THEN NullYield
    ELSE LET Spread(first, rest) ==
                 IF first.err THEN Thrown
                 ELSE [kind |-> "array",
                       nodes |-> first.nodes \o rest.nodes,
                       inter |-> first.inter \o rest.inter,
                       err |-> rest.err]
         IN  Spread(processDOMNode(Head(childNodes)), TraverseLoop(Tail(childNodes)))

\* the traversal with the child nodes taken last to first
traverseChildNodes_lastFirst(node) ==
    TraverseLoop([i \in 1..Len(node.childNodes) |->
                     node.childNodes[Len(node.childNodes) + 1 - i]])

traverseChildNodes(node) == TraverseLoop(node.childNodes)

processDOMNode(node) ==
    IF node.nodeType = "TEXT_NODE"
    THEN LET content == trimAndNormalize(node.data)
         IN  IF content = <<>> THEN NullYield
             ELSE [NullYield EXCEPT !.kind = "node",
                                    !.nodes = <<[tag |-> "span", text |-> content]>>]
    ELSE IF node.nodeType # "ELEMENT_NODE" THEN NullYield
    ELSE IF node.tagName \in {"SCRIPT", "STYLE"} THEN NullYield
    ELSE IF ~isElementVisible(node) THEN NullYield
    ELSE
      LET tagName == node.tagName
          href == getAttribute(node, "href")
          src == getAttribute(node, "src")
          poster == getAttribute(node, "poster")
          pushed == IF isInteractive(node) THEN <<interactiveObject(node)>> ELSE <<>>
          hrefThrows == tagName = "A" /\ href # <<>> /\ ~IsResolvable(href)
      IN  IF isInteractive(node) /\ hrefThrows THEN Thrown
          ELSE IF tagName \notin PRESERVED_TAGS
          THEN LET Transparent(childNodes) ==
                       [kind |-> IF childNodes.nodes # <<>> THEN "array" ELSE "null",
                        nodes |-> childNodes.nodes,
                        inter |-> pushed \o childNodes.inter,
                        err |-> childNodes.err]
               IN  Transparent(traverseChildNodes(node))
          ELSE IF tagName = "TABLE"
          THEN LET Table(tableData) ==
                       [kind |-> "node", nodes |-> tableData.nodes,
                        inter |-> pushed \o tableData.inter, err |-> tableData.err]
               IN  Table(extractTableData(node))
          ELSE IF hrefThrows \/ (src # <<>> /\ ~IsResolvable(src)) THEN Thrown
          ELSE
            LET withHref == IF tagName = "A" /\ href # <<>>
                            THEN [tag |-> TagToLowerCase(tagName), href |-> ResolveURL(href)]
                            ELSE [tag |-> TagToLowerCase(tagName)]
                withSrc == IF src # <<>> THEN With(withHref, "src", ResolveURL(src))
                           ELSE withHref
            IN  IF tagName = "IMG"
                THEN LET altText == getAttribute(node, "alt")
                     IN  [kind |-> "node",
                          nodes |-> <<IF altText # <<>>
                                      THEN With(withSrc, "alt", trimAndNormalize(altText))
                                      ELSE withSrc>>,
                          inter |-> pushed, err |-> FALSE]
                ELSE IF tagName = "VIDEO" /\ poster # <<>> /\ ~IsResolvable(poster)
                THEN Thrown
                ELSE
                  LET withPoster == IF tagName = "VIDEO" /\ poster # <<>>
                                    THEN With(withSrc, "poster", ResolveURL(poster))
                                    ELSE withSrc
                      Preserved(children) ==
                          [kind |-> "node",
                           nodes |-> <<IF children.nodes # <<>>
                                       THEN With(withPoster, "children", children.nodes)
                                       ELSE withPoster>>,
                           inter |-> pushed \o children.inter,
                           err |-> children.err]
                  IN  Preserved(traverseChildNodes(node))

\* cellsArray.map(processDOMNode, flattenNodes on an array).flat().filter(Boolean)
flattenTable(cellsArray) ==
    IF cellsArray = <<>> THEN NullYield
    ELSE LET Flat(processedNode, rest) ==
                 IF processedNode.err THEN Thrown
                 ELSE [kind |-> "array",
                       nodes |-> (IF processedNode.kind = "array"
                                  THEN flattenArray(processedNode.nodes)
                                  ELSE processedNode.nodes) \o rest.nodes,
                       inter |-> processedNode.inter \o rest.inter,
                       err |-> rest.err]
         IN  Flat(processDOMNode(Head(cellsArray)), flattenTable(Tail(cellsArray)))

\* rows.map(tr => flattenTable(cells)).filter(row => row.length > 0); nodes
\* holds the rows here
RowsLoop(rows) ==
    IF rows = <<>> THEN NullYield
    ELSE LET cells == ChildElements(Head(rows), {"TD", "TH"})
             Kept(row, rest) ==
                 IF row.err THEN Thrown
                 ELSE [kind |-> "array",
                       nodes |-> (IF row.nodes # <<>> THEN <<row.nodes>> ELSE <<>>)
                                 \o rest.nodes,
                       inter |-> row.inter \o rest.inter,
                       err |-> rest.err]
         IN  Kept(flattenTable(cells), RowsLoop(Tail(rows)))

\* Array.from(tableElement.children).filter(child is a TR)
DirectRows(tableElement) == ChildElements(tableElement, {"TR"})

extractTableData(tableElement) ==
    LET thead == ChildElements(tableElement, {"THEAD"})
        scopedTbody == ChildElements(tableElement, {"TBODY"})
        headerCellsArray ==
            IF thead # <<>>
            THEN LET headerRows == ChildElements(thead[1], {"TR"})
                 IN  IF headerRows # <<>>
                     THEN ChildElements(headerRows[1], {"TH", "TD"})
                     ELSE <<>>
            ELSE LET candidates == IF scopedTbody # <<>>
                                   THEN ChildElements(scopedTbody[1], {"TR"})
                                   ELSE DirectRows(tableElement)
                 IN  IF candidates # <<>>
                     THEN ChildElements(candidates[1], {"TH"})
                     ELSE <<>>
        tbody == querySelector(tableElement, "TBODY")
        allRows == IF tbody # <<>> THEN ChildElements(tbody[1], {"TR"})
                   ELSE DirectRows(tableElement)
        rows(header) ==
            IF header.nodes # <<>> /\ allRows # <<>>
               /\ ChildElements(allRows[1], {"TH"}) # <<>>
            THEN Tail(allRows)
            ELSE allRows
        TableNode(header, dataRows) ==
            IF header.err THEN Thrown
            ELSE [kind |-> "node",
                  nodes |-> <<[tag |-> "table", header |-> header.nodes,
                               rows |-> dataRows.nodes]>>,
                  inter |-> header.inter \o dataRows.inter,
                  err |-> dataRows.err]
        Rows(header) == TableNode(header, RowsLoop(rows(header)))
    IN  Rows(flattenTable(headerCellsArray))

(***************************************************************************)
(* Metadata                                                                *)
(***************************************************************************)
\* the record with the document's own title and the description meta taken
\* before the social-preview values
extractMetaData_documentFirst(head) ==
    LET ogTitle == trimAndNormalize(head.ogTitle)
        documentTitle == trimAndNormalize(head.title)
        ogDescription == trimAndNormalize(head.ogDescription)
        description == trimAndNormalize(head.description)
        author == trimAndNormalize(head.author)
        canonical == Trim(head.canonical)
        ogImage == trimAndNormalize(head.ogImage)
        keys == (IF ogTitle # <<>> \/ documentTitle # <<>> THEN {"title"} ELSE {})
                \cup (IF ogDescription # <<>> \/ description # <<>>
                      THEN {"description"} ELSE {})
                \cup (IF author # <<>> THEN {"author"} ELSE {})
                \cup (IF canonical # <<>> THEN {"canonical"} ELSE {})
                \cup (IF ogImage # <<>> THEN {"ogImage"} ELSE {})
    IN  [k \in keys |->
            CASE k = "title" -> IF documentTitle # <<>> THEN documentTitle ELSE ogTitle
              [] k = "description" ->
                    IF description # <<>> THEN description ELSE ogDescription
              [] k = "author" -> author
              [] k = "canonical" -> canonical
              [] k = "ogImage" -> ogImage]

\* the document's head: the content (or href, or title) of each element
\* the extractor queries, '' when the element is missing
extractMetaData(head) ==
    LET ogTitle == trimAndNormalize(head.ogTitle)
        documentTitle == trimAndNormalize(head.title)
        ogDescription == trimAndNormalize(head.ogDescription)
        description == trimAndNormalize(head.description)
        author == trimAndNormalize(head.author)
        canonical == Trim(head.canonical)
        ogImage == trimAndNormalize(head.ogImage)
        keys == (IF ogTitle # <<>> \/ documentTitle # <<>> THEN {"title"} ELSE {})
                \cup (IF ogDescription # <<>> \/ description # <<>>
                      THEN {"description"} ELSE {})
                \cup (IF author # <<>> THEN {"author"} ELSE {})
                \cup (IF canonical # <<>> THEN {"canonical"} ELSE {})
                \cup (IF ogImage # <<>> THEN {"ogImage"} ELSE {})
    IN  [k \in keys |->
            CASE k = "title" -> IF ogTitle # <<>> THEN ogTitle ELSE documentTitle
              [] k = "description" ->
                    IF ogDescription # <<>> THEN ogDescription ELSE description
              [] k = "author" -> author
              [] k = "canonical" -> canonical
              [] k = "ogImage" -> ogImage]

(***************************************************************************)
(* extractPageData                                                         *)
(***************************************************************************)
\* { meta: extractMetaData(), body: traverseChildNodes(document.body),
\*   interactive: interactiveElements }
PageData(document) ==
    LET Data(body) ==
            IF body.err THEN TypeError
            ELSE [meta |-> extractMetaData(document.head),
                  body |-> body.nodes,
                  interactive |-> body.inter]
    IN  Data(traverseChildNodes(document.body))

(***************************************************************************)
(* Input documents                                                         *)
(***************************************************************************)
\* the most nodes a generated document has below body
MaxNodes == 4

\* a label is a finished node (a leaf) or a head: an element without its
\* children
Head_(tagName, attrs, style) == [tagName |-> tagName, attrs |-> attrs, style |-> style]

IsHead(label) == ~Has(label, "nodeType")

\* a forest of n nodes in document order is the depth of each node ...
Shapes(n) ==
    {d \in [1..n -> 1..n] :
        /\ n > 0 => d[1] = 1
        /\ \A i \in 2..n : d[i] <= d[i - 1] + 1}

\* ... and its label; only a head has children
Compatible(n, d, l, labels) ==
    \A i \in 2..n : d[i] = d[i - 1] + 1 => IsHead(labels[l[i - 1]])

\* the forest of the nodes from i on that lie at depth or deeper
RECURSIVE ParseForest(_, _, _, _, _, _)
ParseForest(n, d, l, labels, i, depth) ==
    IF i > n \/ d[i] < depth THEN [forest |-> <<>>, next |-> i]
    ELSE LET label == labels[l[i]]
             kids == ParseForest(n, d, l, labels, i + 1, depth + 1)
             node == IF IsHead(label)
                     THEN Element(label.tagName, label.attrs, label.style, kids.forest)
                     ELSE label
             rest == ParseForest(n, d, l, labels, kids.next, depth)
         IN  [forest |-> <<node>> \o rest.forest, next |-> rest.next]

EmptyHead ==
    [ogTitle |-> <<>>, title |-> <<>>, ogDescription |-> <<>>, description |-> <<>>,
     author |-> <<>>, canonical |-> <<>>, ogImage |-> <<>>]

TitledHead == [EmptyHead EXCEPT !.title = <<" ", "G", "o", "\n">>]

Document(head, childNodes) == [head |-> head, body |-> El("BODY", childNodes)]

TextGo == TextNode(<<"G", "o">>)

\* mixed whitespace around and inside a sentence
TextSentence == TextNode(<<"\t", "a", " ", "\n", "b", ".", " ">>)

ImgWithSrc == Element("IMG", [src |-> <<"/", "x">>], StyleShown, <<>>)

ImgBare == El("IMG", <<>>)

InputBare == El("INPUT", <<>>)

Text1 == TextNode(<<"1">>)

\* paragraphs, links, buttons, text and images
StructureLabels ==
    <<Head_("P", NoAttrs, StyleShown),
      Head_("A", [href |-> <<"/", "x">>], StyleShown),
      Head_("BUTTON", [id |-> <<"G", "o">>], StyleShown),
      TextGo, TextSentence, ImgWithSrc, ImgBare>>

\* interactive elements, roles and invisible elements
InteractiveLabels ==
    <<Head_("BUTTON", [id |-> <<"G", "o">>], StyleShown),
      Head_("DIV", [role |-> "Button"], StyleShown),
      Head_("SPAN", [role |-> "link"], StyleShown),
      Head_("P", NoAttrs, StyleNone),
      Head_("SECTION", NoAttrs, StyleHidden),
      TextGo, InputBare>>

\* what a table is made of
TableLabels ==
    <<Head_("TR", NoAttrs, StyleShown),
      Head_("TH", NoAttrs, StyleShown),
      Head_("TD", NoAttrs, StyleShown),
      Text1, InputBare, ImgWithSrc>>

\* an explicit header-group: one row with one header cell
TheadOne == El("THEAD", <<El("TR", <<El("TH", <<Text1>>)>>)>>)

\* tables with a header-group and body-groups
GroupLabels ==
    <<Head_("TR", NoAttrs, StyleShown),
      Head_("TH", NoAttrs, StyleShown),
      Head_("TD", NoAttrs, StyleShown),
      Head_("TBODY", NoAttrs, StyleShown),
      Text1, TextGo, TheadOne>>

\* "https://": a scheme and no host, which new URL rejects
HostlessURL == <<"https:", "//">>

ImgBadSrc == Element("IMG", [src |-> HostlessURL], StyleShown, <<>>)

VideoBadPoster == Element("VIDEO", [poster |-> HostlessURL], StyleShown, <<>>)

\* elements whose URL attributes resolve and elements whose do not
LinkLabels ==
    <<Head_("P", NoAttrs, StyleShown),
      Head_("A", [href |-> HostlessURL], StyleShown),
      Head_("A", [href |-> <<"https:", "//", "o.example">>], StyleShown),
      TextGo, ImgWithSrc, ImgBadSrc, VideoBadPoster>>

\* the most nodes a generated document of nested content has below body
MaxNest == 3

\* a table with one header cell and one data row of one cell
TableOne ==
    El("TABLE", <<El("TR", <<El("TH", <<Text1>>)>>),
                  El("TR", <<El("TD", <<TextGo>>)>>)>>)

\* a table with two header cells and a data row of two cells
TableTwo ==
    El("TABLE", <<El("TR", <<El("TH", <<Text1>>), El("TH", <<TextGo>>)>>),
                  El("TR", <<El("TD", <<TextGo>>), El("TD", <<Text1>>)>>)>>)

TableEmpty == El("TABLE", <<>>)

\* wrappers, headings and list items around text, media and tables
NestLabels ==
    <<Head_("SECTION", NoAttrs, StyleShown),
      Head_("H1", NoAttrs, StyleShown),
      Head_("LI", NoAttrs, StyleShown),
      TextGo, ImgWithSrc, TableOne, TableTwo, TableEmpty>>

\* a transparent wrapper and a preserved element around distinct leaves
OrderLabels ==
    <<Head_("DIV", NoAttrs, StyleShown),
      Head_("P", NoAttrs, StyleShown),
      TextGo, Text1, ImgWithSrc, TableTwo>>

\* a sentence of 2000 characters
TextAtCeiling == TextNode(<<"w1999", ".">>)

\* list items over inline text: text nodes, anchors and code
ListLabels ==
    <<Head_("LI", NoAttrs, StyleShown),
      Head_("A", [href |-> <<"/", "x">>], StyleShown),
      Head_("CODE", NoAttrs, StyleShown),
      TextGo, TextSentence, TextAtCeiling>>

\* a table inside a cell: a body-group with one row of one data cell
NestedTable ==
    El("TABLE", <<El("TBODY", <<El("TR", <<El("TD", <<TextGo>>)>>)>>)>>)

\* tables with tables inside their cells
NestedLabels ==
    <<Head_("TR", NoAttrs, StyleShown),
      Head_("TH", NoAttrs, StyleShown),
      Head_("TD", NoAttrs, StyleShown),
      Head_("TBODY", NoAttrs, StyleShown),
      Text1, NestedTable>>

ImgOther == Element("IMG", [src |-> <<"/", "y">>], StyleShown, <<>>)

\* elements with a src, poster or href of their own around media and text
AbsorbLabels ==
    <<Head_("VIDEO", [src |-> <<"/", "x">>, poster |-> <<"/", "x">>], StyleShown),
      Head_("A", [href |-> <<"/", "x">>], StyleShown),
      Head_("A", [href |-> <<"/", "y">>], StyleShown),
      TextGo, ImgWithSrc, ImgOther>>

\* the content of a meta element: missing or empty, blank, plain, and with
\* mixed whitespace around and inside
MetaValues ==
    {<<>>, <<" ", "\n">>, <<"G", "o">>, <<"\t", "a", " ", "\n", "b", " ">>}

\* link.href of a canonical link whose href resolves
CanonicalResolved == Origin \o <<"/", "x">>

\* link.href of a canonical link whose href does not parse (a host with a
\* space): the attribute as written, its whitespace included
CanonicalUnparsed == <<" ", "https:", "//", "\t", " ", "x", "\n">>

\* link.href: '' without the element or its href, else one of the above
CanonicalValues == {<<>>, CanonicalResolved, CanonicalUnparsed}

\* the most siblings a sequence handed to mergeAdjacentSpans has
MaxSiblings == 3

SpanGo == [tag |-> "span", text |-> <<"G", "o">>]

SpanSentence == [tag |-> "span", text |-> <<"a", ".">>]

\* a text that starts with an opening bracket and ends with one
SpanBrackets == [tag |-> "span", text |-> <<"(", "x", "[">>]

\* a text that starts with a character that is neither \w nor a bracket
SpanComma == [tag |-> "span", text |-> <<",", "b", "?">>]

\* a pre element after flattenSingleChildNodes put its fences
PreFenced ==
    [tag |-> "pre",
     text |-> <<"\n", Backtick, Backtick, Backtick, "\n">> \o <<"x">>
              \o <<"\n", Backtick, Backtick, Backtick, "\n">>]

\* a sentence of 1999 characters and one of 2000
SpanBelowCeiling == [tag |-> "span", text |-> <<"w1998", ".">>]

SpanAtCeiling == [tag |-> "span", text |-> <<"w1999", ".">>]

LiGo == [tag |-> "li", text |-> <<"G", "o">>]

H1Go == [tag |-> "h1", text |-> <<"G", "o">>]

ImgNode == [tag |-> "img", src |-> Origin \o <<"/", "x">>]

\* a video element with a src after it absorbed its only child, a text
VideoText == [tag |-> "video", src |-> Origin \o <<"/", "y">>, text |-> <<"G", "o">>]

\* the nodes a flattened sibling sequence is made of
MergeNodes ==
    {SpanGo, SpanSentence, SpanBrackets, SpanComma, SpanBelowCeiling, SpanAtCeiling,
     PreFenced, LiGo, H1Go, ImgNode, VideoText}

\* the sequences over a set, up to a length
SeqsUpTo(S, n) == UNION {[1..k -> S] : k \in 0..n}

(***************************************************************************)
(* The program                                                             *)
(***************************************************************************)
Init ==
    /\ \E n \in 0..MaxNodes : \E d \in Shapes(n) :
         \E l \in [1..n -> 1..Len(StructureLabels)] :
            /\ Compatible(n, d, l, StructureLabels)
            /\ doc = Document(TitledHead,
                              ParseForest(n, d, l, StructureLabels, 1, 1).forest)
    /\ pc = "start"
    /\ raw = <<>>
    /\ result = <<>>

InitInteractive ==
    /\ \E n \in 0..MaxNodes : \E d \in Shapes(n) :
         \E l \in [1..n -> 1..Len(InteractiveLabels)] :
            /\ Compatible(n, d, l, InteractiveLabels)
            /\ doc = Document(TitledHead,
                              ParseForest(n, d, l, InteractiveLabels, 1, 1).forest)
    /\ pc = "start"
    /\ raw = <<>>
    /\ result = <<>>

\* one table, followed by an image
InitTable ==
    /\ \E n \in 0..MaxNodes : \E d \in Shapes(n) :
         \E l \in [1..n -> 1..Len(TableLabels)] :
            /\ Compatible(n, d, l, TableLabels)
            /\ doc = Document(TitledHead,
                              <<El("TABLE", ParseForest(n, d, l, TableLabels, 1, 1).forest),
                                ImgWithSrc>>)
    /\ pc = "start"
    /\ raw = <<>>
    /\ result = <<>>

\* one table with groups, followed by an image
InitGroups ==
    /\ \E n \in 0..MaxNodes : \E d \in Shapes(n) :
         \E l \in [1..n -> 1..Len(GroupLabels)] :
            /\ Compatible(n, d, l, GroupLabels)
            /\ doc = Document(TitledHead,
                              <<El("TABLE", ParseForest(n, d, l, GroupLabels, 1, 1).forest),
                                ImgWithSrc>>)
    /\ pc = "start"
    /\ raw = <<>>
    /\ result = <<>>

InitLinks ==
    /\ \E n \in 0..MaxNodes : \E d \in Shapes(n) :
         \E l \in [1..n -> 1..Len(LinkLabels)] :
            /\ Compatible(n, d, l, LinkLabels)
            /\ doc = Document(TitledHead,
                              ParseForest(n, d, l, LinkLabels, 1, 1).forest)
    /\ pc = "start"
    /\ raw = <<>>
    /\ result = <<>>

InitNest ==
    /\ \E n \in 0..MaxNest : \E d \in Shapes(n) :
         \E l \in [1..n -> 1..Len(NestLabels)] :
            /\ Compatible(n, d, l, NestLabels)
            /\ doc = Document(TitledHead,
                              ParseForest(n, d, l, NestLabels, 1, 1).forest)
    /\ pc = "start"
    /\ raw = <<>>
    /\ result = <<>>

InitOrder ==
    /\ \E n \in 0..MaxNodes : \E d \in Shapes(n) :
         \E l \in [1..n -> 1..Len(OrderLabels)] :
            /\ Compatible(n, d, l, OrderLabels)
            /\ doc = Document(TitledHead,
                              ParseForest(n, d, l, OrderLabels, 1, 1).forest)
    /\ pc = "start"
    /\ raw = <<>>
    /\ result = <<>>

InitList ==
    /\ \E n \in 0..MaxNodes : \E d \in Shapes(n) :
         \E l \in [1..n -> 1..Len(ListLabels)] :
            /\ Compatible(n, d, l, ListLabels)
            /\ doc = Document(TitledHead,
                              ParseForest(n, d, l, ListLabels, 1, 1).forest)
    /\ pc = "start"
    /\ raw = <<>>
    /\ result = <<>>

\* one table over the labels above, followed by an image
InitNested ==
    /\ \E n \in 0..MaxNodes : \E d \in Shapes(n) :
         \E l \in [1..n -> 1..Len(NestedLabels)] :
            /\ Compatible(n, d, l, NestedLabels)
            /\ doc = Document(TitledHead,
                              <<El("TABLE", ParseForest(n, d, l, NestedLabels, 1, 1).forest),
                                ImgWithSrc>>)
    /\ pc = "start"
    /\ raw = <<>>
    /\ result = <<>>

InitAbsorb ==
    /\ \E n \in 0..MaxNodes : \E d \in Shapes(n) :
         \E l \in [1..n -> 1..Len(AbsorbLabels)] :
            /\ Compatible(n, d, l, AbsorbLabels)
            /\ doc = Document(TitledHead,
                              ParseForest(n, d, l, AbsorbLabels, 1, 1).forest)
    /\ pc = "start"
    /\ raw = <<>>
    /\ result = <<>>

\* a document head over the values above, and a body of a text and an image
InitMeta ==
    /\ \E ogTitle \in MetaValues, title \in MetaValues, ogDescription \in MetaValues,
          description \in MetaValues, author \in MetaValues,
          canonical \in CanonicalValues, ogImage \in MetaValues :
          doc = Document([ogTitle |-> ogTitle, title |-> title,
                          ogDescription |-> ogDescription, description |-> description,
                          author |-> author, canonical |-> canonical,
                          ogImage |-> ogImage],
                         <<TextGo, ImgWithSrc>>)
    /\ pc = "start"
    /\ raw = <<>>
    /\ result = <<>>

\* a sibling sequence and the forceMerging flag, as flattenNodes hands them
\* to mergeAdjacentSpans
InitMerge ==
    /\ \E nodes \in SeqsUpTo(MergeNodes, MaxSiblings) : \E forceMerging \in BOOLEAN :
          doc = [nodes |-> nodes, forceMerging |-> forceMerging]
    /\ pc = "start"
    /\ raw = <<>>
    /\ result = <<>>

\* extractPageData up to the object literal handed to flattenNodes
Traverse ==
    /\ pc = "start"
    /\ raw' = PageData(doc)
    /\ pc' = "traversed"
    /\ UNCHANGED <<doc, result>>

\* return flattenNodes({ meta, body, interactive }); a throw rejects the
\* promise extractDOMData awaits
Flatten ==
    /\ pc = "traversed"
    /\ result' = IF IsError(raw) THEN raw ELSE flattenNodes(raw)[1]
    /\ pc' = "done"
    /\ UNCHANGED <<doc, raw>>

Next == Traverse \/ Flatten

\* mergeAdjacentSpans(nodes, forceMerging) on its own
Merge ==
    /\ pc = "start"
    /\ result' = mergeAdjacentSpans(doc.nodes, doc.forceMerging)
    /\ pc' = "merged"
    /\ UNCHANGED <<doc, raw>>

NextMerge == Merge

Spec == Init /\ [][Next]_vars

SpecInteractive == InitInteractive /\ [][Next]_vars

SpecTable == InitTable /\ [][Next]_vars

SpecGroups == InitGroups /\ [][Next]_vars

SpecLinks == InitLinks /\ [][Next]_vars

SpecNest == InitNest /\ [][Next]_vars

SpecOrder == InitOrder /\ [][Next]_vars

SpecList == InitList /\ [][Next]_vars

SpecNested == InitNested /\ [][Next]_vars

SpecAbsorb == InitAbsorb /\ [][Next]_vars

SpecMeta == InitMeta /\ [][Next]_vars

SpecMerge == InitMerge /\ [][NextMerge]_vars

(***************************************************************************)
(* Vocabulary of the properties                                            *)
(***************************************************************************)
\* every SimplifiedNode of a sequence, at any depth (children, header, rows)
RECURSIVE NodesIn(_)
RECURSIVE NodesInRows(_)
NodesIn(nodes) ==
    IF nodes = <<>> THEN {}
    ELSE LET n == Head(nodes)
         IN  {n}
             \cup (IF Has(n, "children") THEN NodesIn(n.children) ELSE {})
             \cup (IF Has(n, "header") THEN NodesIn(n.header) ELSE {})
             \cup (IF Has(n, "rows") THEN NodesInRows(n.rows) ELSE {})
             \cup NodesIn(Tail(nodes))

NodesInRows(rows) ==
    IF rows = <<>> THEN {} ELSE NodesIn(Head(rows)) \cup NodesInRows(Tail(rows))

Returned == pc = "done" /\ ~IsError(result)

Traversed == pc # "start" /\ ~IsError(raw)

BodyOf(r) == IF Has(r, "body") THEN r.body ELSE <<>>

InteractiveOf(r) == IF Has(r, "interactive") THEN r.interactive ELSE <<>>

\* the interactive elements as the specification lists them, role on any tag
IsButtonLike(e) ==
    \/ e.tagName \in {"BUTTON", "INPUT", "SELECT", "TEXTAREA"}
    \/ ("role" \in DOMAIN e.attrs /\ e.attrs["role"] \in {"button", "Button", "BUTTON"})

IsShown(e) == e.style = StyleShown

\* the lower-case tags of the shown button-like elements that have no
\* hidden ancestor, in document pre-order
RECURSIVE ShownButtonLikeTags(_)
ShownButtonLikeTags(ns) ==
    IF ns = <<>> THEN <<>>
    ELSE LET h == Head(ns)
         IN  (IF IsElement(h) /\ IsShown(h)
              THEN (IF IsButtonLike(h) THEN <<TagToLowerCase(h.tagName)>> ELSE <<>>)
                   \o ShownButtonLikeTags(h.childNodes)
              ELSE <<>>)
             \o ShownButtonLikeTags(Tail(ns))

TagsOf(entries) == [i \in 1..Len(entries) |-> entries[i].tag]

\* no TR, TH or TD element anywhere in a forest
RECURSIVE NoTableParts(_)
NoTableParts(ns) ==
    \A i \in 1..Len(ns) :
        IsElement(ns[i]) =>
            /\ ns[i].tagName \notin {"TR", "TH", "TD"}
            /\ NoTableParts(ns[i].childNodes)

\* a table of rows of cells: TABLE > TR > (TH | TD) > content
IsPlainTable(t) ==
    /\ t.childNodes # <<>>
    /\ \A i \in 1..Len(t.childNodes) :
         LET tr == t.childNodes[i]
         IN  /\ IsElement(tr) /\ tr.tagName = "TR"
             /\ tr.childNodes # <<>>
             /\ \A j \in 1..Len(tr.childNodes) :
                  LET cell == tr.childNodes[j]
                  IN  /\ IsElement(cell) /\ cell.tagName \in {"TH", "TD"}
                      /\ NoTableParts(cell.childNodes)

(***************************************************************************)
(* C1 - C5                                                                 *)
(***************************************************************************)
\* C1: after flattenNodes no node of the Result's body, at any depth, has
\* tag as its only field
C1_NoTagOnlyNode ==
    Returned => \A n \in NodesIn(BodyOf(result)) : DOMAIN n # {"tag"}

\* C2: the value returned has a metadata record, a body sequence and an
\* interactive sequence, both present also when empty, and nothing else
C2_ResultShape ==
    Returned =>
        /\ Has(result, "meta") \/ Has(result, "metadata")
        /\ Has(result, "body")
        /\ Has(result, "interactive")
        /\ DOMAIN result \subseteq {"meta", "metadata", "body", "interactive"}

\* C3: on a tree of element and text nodes with resolvable URLs the
\* pipeline returns a Result, it does not raise
C3_NeverRaises == pc = "done" => ~IsError(result)

\* C4: a visible interactive element yields nothing in the structural
\* tree, neither itself nor its descendants
C4_InteractiveYieldsNothing ==
    (/\ Traversed
     /\ doc.body.childNodes # <<>>
     /\ \A i \in 1..Len(doc.body.childNodes) :
          LET e == doc.body.childNodes[i]
          IN  IsElement(e) /\ IsShown(e) /\ IsButtonLike(e))
    => raw.body = <<>>

\* C5: each visible interactive element without an invisible ancestor has
\* exactly one entry in the interactive list, in document pre-order, also
\* inside a header or data cell of a table
C5_OneEntryPerInteractive ==
    (Traversed /\ IsPlainTable(doc.body.childNodes[1]))
    => TagsOf(raw.interactive) = ShownButtonLikeTags(doc.body.childNodes)

(***************************************************************************)
(* C6 - C10                                                                *)
(***************************************************************************)
\* the classification with role="button" honoured on anchors only
IsButtonOrRoleAnchor(e) ==
    \/ e.tagName \in {"BUTTON", "INPUT", "SELECT", "TEXTAREA"}
    \/ /\ e.tagName = "A"
       /\ "role" \in DOMAIN e.attrs
       /\ e.attrs["role"] \in {"button", "Button", "BUTTON"}

RECURSIVE ShownRoleAnchorTags(_)
ShownRoleAnchorTags(ns) ==
    IF ns = <<>> THEN <<>>
    ELSE LET h == Head(ns)
         IN  (IF IsElement(h) /\ IsShown(h)
              THEN (IF IsButtonOrRoleAnchor(h) THEN <<TagToLowerCase(h.tagName)>>
                    ELSE <<>>)
                   \o ShownRoleAnchorTags(h.childNodes)
              ELSE <<>>)
             \o ShownRoleAnchorTags(Tail(ns))

RECURSIVE WithoutInvisible(_)
WithoutInvisible(ns) ==
    IF ns = <<>> THEN <<>>
    ELSE LET h == Head(ns)
         IN  (IF ~IsElement(h) THEN <<h>>
              ELSE IF ~IsShown(h) THEN <<>>
              ELSE <<[h EXCEPT !.childNodes = WithoutInvisible(h.childNodes)]>>)
             \o WithoutInvisible(Tail(ns))

\* C7: an element with display none or visibility hidden is excluded
\* entirely: the traversal yields what it yields on the document without
\* that element and its descendants, the text of an enclosing interactive
\* element included
C7_InvisibleExcluded ==
    Traversed =>
        raw = PageData(Document(doc.head, WithoutInvisible(doc.body.childNodes)))

\* whitespace-normalized: single spaces only, none leading or trailing
IsNormalized(t) ==
    /\ \A i \in 1..Len(t) : t[i] \in WhitespaceChars => t[i] = " "
    /\ \A i \in 1..(Len(t) - 1) : ~(t[i] = " " /\ t[i + 1] = " ")
    /\ t # <<>> => (t[1] # " " /\ t[Len(t)] # " ")

Range(seq) == {seq[i] : i \in 1..Len(seq)}

\* the nodes of a sequence at any depth, table cells left out
RECURSIVE NodesOutsideCells(_)
NodesOutsideCells(nodes) ==
    IF nodes = <<>> THEN {}
    ELSE LET n == Head(nodes)
         IN  {n}
             \cup (IF Has(n, "children") THEN NodesOutsideCells(n.children) ELSE {})
             \cup NodesOutsideCells(Tail(nodes))

\* C8 as stated: every text field of the Result, on a body node at any
\* depth or on an interactive entry, is whitespace-normalized
C8_ResultTextNormalized ==
    Returned =>
        \A n \in NodesIn(BodyOf(result)) \cup Range(InteractiveOf(result)) :
            Has(n, "text") => IsNormalized(n.text)

\* C8 amended: every text field is whitespace-normalized when the traversal
\* stores it, on the node made from a text node and on an interactive entry
C8_TraversalTextNormalized ==
    Traversed =>
        \A n \in NodesOutsideCells(raw.body) \cup Range(raw.interactive) :
            Has(n, "text") => (n.text # <<>> /\ IsNormalized(n.text))

\* a button over a text with tabs, newlines and outer spaces was traversed
C8_Witness ==
    /\ Traversed
    /\ Len(doc.body.childNodes) = 1
    /\ IsElement(doc.body.childNodes[1])
    /\ doc.body.childNodes[1].tagName = "BUTTON"
    /\ doc.body.childNodes[1].childNodes = <<TextSentence>>
    /\ raw.interactive[1].text = <<"a", " ", "b", ".">>
    /\ raw.body = <<[tag |-> "span", text |-> <<"a", " ", "b", ".">>]>>

\* a raw paragraph whose only child is an anchor with an href whose only
\* child is a text
IsLinkParagraph(n) ==
    /\ n.tag = "p"
    /\ DOMAIN n = {"tag", "children"}
    /\ Len(n.children) = 1
    /\ n.children[1].tag = "a"
    /\ DOMAIN n.children[1] = {"tag", "href", "children"}
    /\ Len(n.children[1].children) = 1
    /\ n.children[1].children[1].tag = "span"
    /\ DOMAIN n.children[1].children[1] = {"tag", "text"}

LinkLabel(n) ==
    <<"[">> \o n.children[1].children[1].text \o <<"]", "(">>
    \o n.children[1].href \o <<")">>

\* a node the merge pass hands through and the collapse keeps
IsMedia(n) == DOMAIN n = {"tag", "src"}

\* C9: a paragraph whose only child is an anchor with href H whose only
\* content is the text T normalizes to { tag: "p", text: "[T](H)" }, and
\* stands so in the body next to a media node
C9_ParagraphLinkLabel ==
    Traversed =>
        \A i \in 1..Len(raw.body) :
            IsLinkParagraph(raw.body[i]) =>
                /\ flattenNodes(raw.body[i])
                     = <<[tag |-> "p", text |-> LinkLabel(raw.body[i])]>>
                /\ (/\ pc = "done" /\ Len(raw.body) = 2
                    /\ IsMedia(raw.body[3 - i]) /\ raw.interactive = <<>>)
                   => (/\ Returned
                       /\ Len(result.body) = 2
                       /\ result.body[i] = [tag |-> "p", text |-> LinkLabel(raw.body[i])]
                       /\ result.body[3 - i] = raw.body[3 - i])

\* <p><a href="/x">Go</a></p><img src="/x"> was normalized
C9_Witness ==
    /\ Returned
    /\ doc.body.childNodes =
         <<El("P", <<Element("A", [href |-> <<"/", "x">>], StyleShown, <<TextGo>>)>>),
           ImgWithSrc>>
    /\ result.body[1] =
         [tag |-> "p",
          text |-> <<"[", "G", "o", "]", "(", "https:", "//", "example.com", "/", "x", ")">>]

\* C10: header has as many entries as the header row has header cells and
\* each sequence of rows as many as its source row has cells, also for an
\* empty cell or a cell with several child nodes
C10_CellCounts ==
    (Traversed /\ IsPlainTable(doc.body.childNodes[1])) =>
        LET tableElement == doc.body.childNodes[1]
            trs == tableElement.childNodes
            headerCells == ChildElements(trs[1], {"TH"})
            tableData == raw.body[1]
        IN  /\ Len(tableData.header) = Len(headerCells)
            /\ (headerCells = <<>> /\ Len(tableData.rows) = Len(trs)) =>
                 \A k \in 1..Len(trs) :
                     Len(tableData.rows[k]) = Len(trs[k].childNodes)

(***************************************************************************)
(* C11 - C15                                                               *)
(***************************************************************************)
\* the rows of the body-group, or the direct rows when there is none
BodyRows(t) ==
    IF ChildElements(t, {"TBODY"}) # <<>>
    THEN ChildElements(ChildElements(t, {"TBODY"})[1], {"TR"})
    ELSE ChildElements(t, {"TR"})

\* the header was taken from the first body row: no header-group, and the
\* first row has header cells
HeaderFromFirstRow(t) ==
    /\ ChildElements(t, {"THEAD"}) = <<>>
    /\ BodyRows(t) # <<>>
    /\ ChildElements(BodyRows(t)[1], {"TH"}) # <<>>

\* C11: rows is, in document order, one sequence per body row that yields a
\* cell, the first row left out if and only if the header was derived from
\* it; with an explicit header-group no body row is left out
C11_RowsSelection ==
    Traversed =>
        LET t == doc.body.childNodes[1]
        IN  raw.body[1].rows =
                RowsLoop(IF HeaderFromFirstRow(t)
                         THEN Tail(BodyRows(t)) ELSE BodyRows(t)).nodes

Merged == pc = "merged"

\* what the pass puts between two texts: nothing, a space, a paragraph break
Separators == {<<>>, <<" ">>, <<"\n", "\n">>}

\* the texts, in order, with a separator between each two
RECURSIVE Joins(_)
Joins(ts) ==
    IF Len(ts) = 1 THEN {ts[1]}
    ELSE {ts[1] \o s \o r : s \in Separators, r \in Joins(Tail(ts))}

\* a text without the newlines it ends with
RECURSIVE WithoutFinalNewlines(_)
WithoutFinalNewlines(t) ==
    IF t # <<>> /\ t[Len(t)] = "\n"
    THEN WithoutFinalNewlines([i \in 1..(Len(t) - 1) |-> t[i]])
    ELSE t

\* out is ins in order, each node of out being either the next node of ins
\* as it is or the next k nodes of ins merged: their texts joined, without
\* the newlines the joined text ends with when closed is set
RECURSIVE MergedInOrder(_, _, _)
MergedInOrder(out, ins, closed) ==
    IF ins = <<>> \/ out = <<>> THEN ins = <<>> /\ out = <<>>
    ELSE \/ Head(out) = Head(ins) /\ MergedInOrder(Tail(out), Tail(ins), closed)
         \/ \E k \in 1..Len(ins) :
              /\ \A i \in 1..k : Has(ins[i], "text")
              /\ Has(Head(out), "text")
              /\ \E j \in Joins([i \in 1..k |-> ins[i].text]) :
                    Head(out).text = IF closed THEN WithoutFinalNewlines(j) ELSE j
              /\ MergedInOrder(Tail(out), SubSeq(ins, k + 1, Len(ins)), closed)

\* C12 as stated: the pass never reorders siblings, and the text of a merged
\* node without the separators the pass inserted is exactly the texts of the
\* nodes merged into it, in order: no input character is dropped
C12_MergeLossless ==
    Merged => MergedInOrder(result, doc.nodes, FALSE)

\* C12 amended: the same, except that a flushed buffer loses the newlines
\* its text ends with, those of its last input text included
C12_MergeLosslessButFinalNewlines ==
    Merged => MergedInOrder(result, doc.nodes, TRUE)

\* a fenced pre text and a following text were merged into one node
C12_Witness ==
    /\ Merged
    /\ doc.nodes = <<SpanGo, PreFenced, ImgNode>>
    /\ result[1].text =
         <<"G", "o", "\n", Backtick, Backtick, Backtick, "\n", "x",
           "\n", Backtick, Backtick, Backtick>>
    /\ result[2] = ImgNode

\* the elements of a forest, at any depth, in document order
RECURSIVE ElementsIn(_)
ElementsIn(ns) ==
    IF ns = <<>> THEN <<>>
    ELSE (IF IsElement(Head(ns))
          THEN <<Head(ns)>> \o ElementsIn(Head(ns).childNodes)
          ELSE <<>>)
         \o ElementsIn(Tail(ns))

\* C13: an href, src or poster value that cannot be resolved does not abort
\* the traversal: the Result is returned and the field holds the raw value
C13_UnresolvableKept ==
    pc # "start" =>
        /\ ~IsError(raw)
        /\ \A e \in Range(ElementsIn(doc.body.childNodes)) :
             \A a \in {"href", "src", "poster"} :
                (hasAttribute(e, a) /\ e.attrs[a] = HostlessURL) =>
                    \E n \in NodesIn(raw.body) : Has(n, a) /\ n[a] = HostlessURL

\* a node with a table field and a content field
MixesTableAndContent(n) ==
    (Has(n, "header") \/ Has(n, "rows")) /\ (Has(n, "children") \/ Has(n, "text"))

\* C14: no node of the raw tree, of the flattened body or of the returned
\* body has header or rows together with children or text
C14_TableOrContent ==
    /\ Traversed =>
         \A n \in NodesIn(raw.body) \cup NodesIn(flattenArray(raw.body)) :
             ~MixesTableAndContent(n)
    /\ Returned => \A n \in NodesIn(BodyOf(result)) : ~MixesTableAndContent(n)

\* a section whose only child is a table absorbed it and holds its fields
C14_Witness ==
    /\ Returned
    /\ doc.body.childNodes = <<El("SECTION", <<TableOne>>), ImgWithSrc>>
    /\ result.body[1] =
         [tag |-> "section",
          header |-> <<[tag |-> "span", text |-> <<"1">>]>>,
          rows |-> <<<<[tag |-> "span", text |-> <<"G", "o">>]>>>>]

\* what a forest shows, in document pre-order: the characters of its text
\* nodes and a mark for each image
RECURSIVE SourceTrace(_)
SourceTrace(ns) ==
    IF ns = <<>> THEN <<>>
    ELSE LET h == Head(ns)
         IN  (IF ~IsElement(h) THEN h.data
              ELSE IF h.tagName = "IMG" THEN <<"IMG">>
              ELSE SourceTrace(h.childNodes))
             \o SourceTrace(Tail(ns))

\* the same of a sequence of simplified nodes: a node, then its children,
\* then its header cells left to right, then its rows top to bottom
RECURSIVE NodeTrace(_)
RECURSIVE RowsTrace(_)
NodeTrace(nodes) ==
    IF nodes = <<>> THEN <<>>
    ELSE LET n == Head(nodes)
         IN  (IF Has(n, "text") THEN n.text ELSE <<>>)
             \o (IF n.tag = "img" THEN <<"IMG">> ELSE <<>>)
             \o (IF Has(n, "children") THEN NodeTrace(n.children) ELSE <<>>)
             \o (IF Has(n, "header") THEN NodeTrace(n.header) ELSE <<>>)
             \o (IF Has(n, "rows") THEN RowsTrace(n.rows) ELSE <<>>)
             \o NodeTrace(Tail(nodes))

RowsTrace(rows) ==
    IF rows = <<>> THEN <<>> ELSE NodeTrace(Head(rows)) \o RowsTrace(Tail(rows))

C16_ChildrenAtLeastTwo ==
    /\ Traversed =>
         \A n \in NodesIn(flattenArray(raw.body)) :
             Has(n, "children") => Len(n.children) >= 2
    /\ Returned =>
         \A n \in NodesIn(BodyOf(result)) :
             Has(n, "children") => Len(n.children) >= 2

\* a heading absorbed its only child
C16_Witness ==
    /\ Returned
    /\ doc.body.childNodes = <<El("H1", <<TextGo>>), ImgWithSrc>>
    /\ raw.body[1] = [tag |-> "h1", children |-> <<[tag |-> "span", text |-> <<"G", "o">>]>>]
    /\ result.body[1] = [tag |-> "h1", text |-> <<"G", "o">>]

\* the header and rows of the table-shaped nodes of a sequence, in pre-order
RECURSIVE TableFieldsIn(_)
TableFieldsIn(nodes) ==
    IF nodes = <<>> THEN <<>>
    ELSE LET n == Head(nodes)
         IN  (IF Has(n, "header") \/ Has(n, "rows")
              THEN <<[f \in DOMAIN n \cap {"header", "rows"} |-> n[f]]>>
              ELSE <<>>)
             \o (IF Has(n, "children") THEN TableFieldsIn(n.children) ELSE <<>>)
             \o TableFieldsIn(Tail(nodes))

\* C17: flattenNodes leaves header and rows as they were: no cell is merged,
\* dropped, absorbed or re-encoded, and an empty or one-element header or
\* rows is neither deleted nor absorbed
C17_TableFieldsUntouched ==
    /\ Traversed => TableFieldsIn(flattenArray(raw.body)) = TableFieldsIn(raw.body)
    /\ Returned => TableFieldsIn(BodyOf(result)) = TableFieldsIn(raw.body)

\* a table with two header cells and a table without cells came through
C17_Witness ==
    /\ Returned
    /\ doc.body.childNodes = <<El("SECTION", <<TableTwo>>), TableEmpty>>
    /\ result.body[1] =
         [tag |-> "section",
          header |-> <<[tag |-> "span", text |-> <<"1">>],
                       [tag |-> "span", text |-> <<"G", "o">>]>>,
          rows |-> <<<<[tag |-> "span", text |-> <<"G", "o">>],
                       [tag |-> "span", text |-> <<"1">>]>>>>]
    /\ result.body[2] = [tag |-> "table", header |-> <<>>, rows |-> <<>>]

\* a node the pass merges: it has a text and is neither a list item nor a
\* heading
IsEligible(n) == Has(n, "text") /\ n.text # <<>> /\ n.tag \notin {"li", "h1", "h2"}

EndsSentence(t) == t[Len(t)] \in {".", "?", "!"}

\* no space goes between the buffer and the incoming text: as stated (any
\* start that is not a word character, brackets included), or with the
\* starts on an opening bracket left out
TakesNoSpace(buffer, incoming, asStated) ==
    \/ buffer[Len(buffer)] \in {"<<", "{", "(", "[", "\n"}
    \/ /\ ~StartsWithWordChar(incoming[1])
       /\ asStated \/ incoming[1] \notin {"<<", "[", "(", "{"}

\* the buffer after the texts are appended in turn, a paragraph break after
\* each that ends a sentence
RECURSIVE AppendAll(_, _, _)
AppendAll(buffer, texts, asStated) ==
    IF texts = <<>> THEN buffer
    ELSE LET incoming == Head(texts)
             Broken(t) == IF EndsSentence(incoming) THEN t \o <<"\n", "\n">> ELSE t
         IN  AppendAll(Broken(IF buffer = <<>> THEN incoming
                              ELSE buffer
                                   \o (IF TakesNoSpace(buffer, incoming, asStated)
                                       THEN <<>> ELSE <<" ">>)
                                   \o incoming),
                       Tail(texts), asStated)

\* a sequence of eligible nodes that stays below the ceiling and is merged
\* without forceMerging comes out as one node with the texts appended under
\* the rule
AppendedUnder(asStated) ==
    (/\ Merged /\ ~doc.forceMerging /\ doc.nodes # <<>>
     /\ \A i \in 1..Len(doc.nodes) : IsEligible(doc.nodes[i])
     /\ StrLen(AppendAll(<<>>, [i \in 1..Len(doc.nodes) |-> doc.nodes[i].text],
                         asStated)) < 2000)
    => /\ Len(result) = 1
       /\ result[1].text =
            WithoutFinalNewlines(
                AppendAll(<<>>, [i \in 1..Len(doc.nodes) |-> doc.nodes[i].text],
                          asStated))

\* C18 as stated: an incoming text is appended after exactly one space,
\* unless the buffer ends with an opening bracket or a newline or the
\* incoming text begins with a non-word character, an opening bracket or a
\* newline, when it is appended without a space
C18_SpaceAsStated == AppendedUnder(TRUE)

\* C18 amended: an incoming text that begins with an opening bracket does
\* take the space; none is inserted when the buffer ends with an opening
\* bracket or a newline, or the incoming text begins with a character that
\* is neither a word character nor an opening bracket
C18_SpaceBeforeBracket == AppendedUnder(FALSE)

\* a text starting with a bracket was appended after a space, a text was
\* appended to a buffer ending with a bracket without one
C18_Witness ==
    /\ Merged /\ ~doc.forceMerging
    /\ doc.nodes = <<SpanGo, SpanBrackets, SpanGo>>
    /\ result = <<[tag |-> "span",
                   text |-> <<"G", "o", " ", "(", "x", "[", "G", "o">>]>>

\* a buffer as it is flushed: without the newlines its text ends with
Flushed(buffer) ==
    IF buffer = <<>> THEN <<>>
    ELSE <<[buffer[1] EXCEPT !.text = WithoutFinalNewlines(@)]>>

\* the buffer after a node's text is appended
Appended(buffer, node) ==
    IF buffer = <<>> THEN node
    ELSE [buffer[1] EXCEPT !.text =
              @ \o (IF TakesNoSpace(@, node.text, FALSE) THEN <<>> ELSE <<" ">>)
                \o node.text]

\* the pass by its rules: a node that is not eligible flushes the buffer and
\* goes through; after a text is appended, a sentence end below the ceiling
\* adds a paragraph break and keeps the buffer open, no sentence end
\* without forceMerging keeps it open as it is, anything else flushes it
RECURSIVE ByFlushRules(_, _, _, _)
ByFlushRules(nodes, out, buffer, forceMerging) ==
    IF nodes = <<>> THEN out \o Flushed(buffer)
    ELSE IF ~IsEligible(Head(nodes))
    THEN ByFlushRules(Tail(nodes), out \o Flushed(buffer) \o <<Head(nodes)>>, <<>>,
                      forceMerging)
    ELSE IF /\ EndsSentence(Head(nodes).text)
            /\ StrLen(Appended(buffer, Head(nodes)).text) < 2000
    THEN ByFlushRules(Tail(nodes), out,
                      <<[Appended(buffer, Head(nodes)) EXCEPT
                            !.text = @ \o <<"\n", "\n">>]>>,
                      forceMerging)
    ELSE IF ~EndsSentence(Head(nodes).text) /\ ~forceMerging
    THEN ByFlushRules(Tail(nodes), out, <<Appended(buffer, Head(nodes))>>, forceMerging)
    ELSE ByFlushRules(Tail(nodes), out \o Flushed(<<Appended(buffer, Head(nodes))>>),
                      <<>>, forceMerging)

\* C19: after an eligible text is appended, a sentence end with the buffer
\* below 2000 characters adds a paragraph break and keeps the buffer open,
\* no sentence end without forceMerging keeps it open unchanged, every
\* other case flushes; a flushed buffer loses its trailing newlines, so no
\* text that comes from a buffer ends with a newline
C19_FlushRules ==
    Merged =>
        /\ result = ByFlushRules(doc.nodes, <<>>, <<>>, doc.forceMerging)
        /\ \A i \in 1..Len(result) :
              IsEligible(result[i]) => result[i].text[Len(result[i].text)] # "\n"

\* a sentence of 1999 characters kept the buffer open and took the next
\* text after a paragraph break; one of 2000 characters was flushed
C19_Witness ==
    /\ Merged /\ ~doc.forceMerging
    /\ doc.nodes = <<SpanBelowCeiling, SpanAtCeiling, SpanSentence>>
    /\ result = <<[tag |-> "span",
                   text |-> <<"w1998", ".", "\n", "\n", "w1999", ".">>],
                  [tag |-> "span", text |-> <<"a", ".">>]>>

\* inline text: a text node that is not blank, or an anchor or code element
\* that has children, all of them inline text
RECURSIVE IsInlineText(_)
IsInlineText(n) ==
    IF ~IsElement(n) THEN \E i \in 1..Len(n.data) : n.data[i] \notin WhitespaceChars
    ELSE /\ n.tagName \in {"A", "CODE"}
         /\ IsShown(n)
         /\ n.childNodes # <<>>
         /\ \A i \in 1..Len(n.childNodes) : IsInlineText(n.childNodes[i])

\* a list item all of whose children are inline text
IsTextListItem(n) ==
    /\ IsElement(n) /\ n.tagName = "LI" /\ IsShown(n)
    /\ n.childNodes # <<>>
    /\ \A i \in 1..Len(n.childNodes) : IsInlineText(n.childNodes[i])

\* C20: a list item whose source children are all inline text comes out of
\* flattenNodes with tag and text only, no children, and without a newline
\* in its text
C20_ListItemFlatText ==
    Traversed =>
        \A i \in 1..Len(doc.body.childNodes) :
            IsTextListItem(doc.body.childNodes[i]) =>
                /\ raw.body[i].tag = "li"
                /\ \E n \in Range(flattenNodes(raw.body[i])) :
                      /\ DOMAIN n = {"tag", "text"}
                      /\ n.tag = "li"
                      /\ \A k \in 1..Len(n.text) : n.text[k] # "\n"

(***************************************************************************)
(* C21 - C27                                                               *)
(***************************************************************************)
\* title and description are the social-preview value when that is not
\* empty once normalized, else the document's title / the description meta
PrefersSocialPreview(meta, head) ==
    /\ Has(meta, "title") =>
         meta.title = IF trimAndNormalize(head.ogTitle) # <<>>
                      THEN trimAndNormalize(head.ogTitle)
                      ELSE trimAndNormalize(head.title)
    /\ Has(meta, "description") =>
         meta.description = IF trimAndNormalize(head.ogDescription) # <<>>
                            THEN trimAndNormalize(head.ogDescription)
                            ELSE trimAndNormalize(head.description)

\* no whitespace at either end
IsTrimmed(t) == t # <<>> => (t[1] \notin WhitespaceChars /\ t[Len(t)] \notin WhitespaceChars)

\* C21 as stated: every field of the metadata record is absent or a
\* non-empty whitespace-normalized string, and title / description are the
\* social-preview value when it is non-empty after normalization, else the
\* document title / description meta
C21_MetaNormalized ==
    Traversed =>
        /\ \A k \in DOMAIN raw.meta : raw.meta[k] # <<>> /\ IsNormalized(raw.meta[k])
        /\ PrefersSocialPreview(raw.meta, doc.head)

\* C21 amended: the same for title, description, author and ogImage;
\* canonical is absent or a non-empty string without whitespace at its ends,
\* whitespace inside it is kept as the link gives it
C21_MetaNormalizedCanonicalTrimmed ==
    Traversed =>
        /\ \A k \in DOMAIN raw.meta :
              /\ raw.meta[k] # <<>>
              /\ IF k = "canonical" THEN IsTrimmed(raw.meta[k])
                 ELSE IsNormalized(raw.meta[k])
        /\ PrefersSocialPreview(raw.meta, doc.head)

\* a blank social-preview title gave way to the document's title, a
\* social-preview description was taken before the description meta, and a
\* canonical link was trimmed
C21_Witness ==
    /\ Traversed
    /\ doc.head.ogTitle = <<" ", "\n">>
    /\ doc.head.title = <<"\t", "a", " ", "\n", "b", " ">>
    /\ doc.head.ogDescription = <<"\t", "a", " ", "\n", "b", " ">>
    /\ doc.head.description = <<"G", "o">>
    /\ doc.head.canonical = CanonicalUnparsed
    /\ raw.meta.title = <<"a", " ", "b">>
    /\ raw.meta.description = <<"a", " ", "b">>
    /\ raw.meta.canonical = <<"https:", "//", "\t", " ", "x">>
    /\ ~Has(raw.meta, "author")

MetaOf(r) == IF Has(r, "meta") THEN r.meta ELSE [k \in {} |-> <<>>]

\* C22: the interactive list and the metadata record of the returned Result
\* are those the traversal collected, same entries, same order, same
\* fields: flattenNodes drops, merges, absorbs and re-encodes no
\* InteractiveElement, an entry whose only field is tag included
C22_InteractiveAndMetaUntouched ==
    Returned =>
        /\ InteractiveOf(result) = raw.interactive
        /\ MetaOf(result) = raw.meta

\* the fields of a node that are not its tag or its text
CarriedFields == {"src", "poster", "alt", "href"}

\* C23: mergeAdjacentSpans discards no src, poster, alt or href: each such
\* value of a node of the input sequence is on some node of the output, also
\* when the node's text is appended to an open buffer
C23_MergeKeepsFields ==
    Merged =>
        \A i \in 1..Len(doc.nodes) : \A f \in CarriedFields :
            Has(doc.nodes[i], f) =>
                \E j \in 1..Len(result) :
                    Has(result[j], f) /\ result[j][f] = doc.nodes[i][f]

\* C24: absorbing a sole child overwrites no field of the parent: a node
\* that has a src or poster of its own has the same value after
\* flattenNodes, and its href is the same or was dropped by the re-encoding
C24_AbsorptionKeepsParentFields ==
    Traversed =>
        \A n \in NodesIn(raw.body) :
            Has(n, "children") =>
                \A after \in Range(flattenNodes(n)) :
                    /\ \A f \in {"src", "poster"} :
                          Has(n, f) => (Has(after, f) /\ after[f] = n[f])
                    /\ (Has(n, "href") /\ Has(after, "href")) => after.href = n.href

\* C25: in the final tree a node has a header or rows field only if its tag
\* is "table"; a node of another tag that absorbs a sole table child does
\* not take the table fields
C25_TableFieldsOnTablesOnly ==
    /\ Traversed =>
         \A n \in NodesIn(flattenArray(raw.body)) :
             (Has(n, "header") \/ Has(n, "rows")) => n.tag = "table"
    /\ Returned =>
         \A n \in NodesIn(BodyOf(result)) :
             (Has(n, "header") \/ Has(n, "rows")) => n.tag = "table"

\* the rows that belong to a table: those of its header-group, body-groups
\* and footer-group and its direct rows, in document order
RECURSIVE RowsOfTable(_)
RowsOfTable(ns) ==
    IF ns = <<>> THEN <<>>
    ELSE LET h == Head(ns)
         IN  (IF ~IsElement(h) THEN <<>>
              ELSE IF h.tagName = "TR" THEN <<h>>
              ELSE IF h.tagName \in {"THEAD", "TBODY", "TFOOT"}
              THEN ChildElements(h, {"TR"})
              ELSE <<>>)
             \o RowsOfTable(Tail(ns))

\* the processed content of the cells of a sequence of rows, in order
RECURSIVE CellContents(_)
CellContents(rows) ==
    IF rows = <<>> THEN <<>>
    ELSE flattenTable(ChildElements(Head(rows), {"TH", "TD"})).nodes
         \o CellContents(Tail(rows))

RECURSIVE Concat(_)
Concat(seqs) == IF seqs = <<>> THEN <<>> ELSE Head(seqs) \o Concat(Tail(seqs))

Count(seq, v) == Cardinality({i \in 1..Len(seq) : seq[i] = v})

\* C26: every cell with content of a row that belongs to the table gives its
\* processed content exactly once to header or rows, the data cells of a
\* first row with header cells and the later rows of the header-group
\* included
C26_NoCellLost ==
    Traversed =>
        LET t == doc.body.childNodes[1]
            kept == raw.body[1].header \o Concat(raw.body[1].rows)
            cells == CellContents(RowsOfTable(t.childNodes))
        IN  \A v \in Range(kept) \cup Range(cells) : Count(kept, v) = Count(cells, v)

\* what the cells of the given tags of a table's own rows are processed to,
\* row by row
OwnRowContents(t, tags) ==
    {flattenTable(ChildElements(r, tags)).nodes : r \in Range(RowsOfTable(t.childNodes))}

\* C27: header and each sequence of rows are built from rows and cells of
\* the table itself; no row or body-group of a table nested in a cell is
\* taken as a header row or data row, also when the table has no body-group
\* of its own
C27_OwnRowsOnly ==
    Traversed =>
        LET t == doc.body.childNodes[1]
            tableData == raw.body[1]
        IN  /\ tableData.header \in
                  {<<>>} \cup OwnRowContents(t, {"TH"}) \cup OwnRowContents(t, {"TH", "TD"})
            /\ \A k \in 1..Len(tableData.rows) :
                  tableData.rows[k] \in OwnRowContents(t, {"TH", "TD"})

====
